---- MODULE Spec2Model ----
(***************************************************************************)
(* XMLON (src/index.js): Stringify(value, replacer, space) walks a value   *)
(* tree and drives an XML writer; Parse(xml, reviver) drives a SAX parser  *)
(* and rebuilds the value tree.  The model runs one Stringify call and     *)
(* then one Parse call on its output.  clone's recursion is modelled call  *)
(* by call, the three SAX handlers event by event.                         *)
(***************************************************************************)
EXTENDS Integers, Sequences, FiniteSets

VARIABLES
    pc,        \* "start" | "clone" | "parse" | "done" | "error"
    value,     \* Stringify's value argument
    replacer,  \* Stringify's replacer argument
    space,     \* Stringify's space argument
    stack,     \* the chain of active clone(source) calls
    xml,       \* what Stringify returned, as the parser will read it
    events,    \* the SAX events still to be delivered by parser.write
    path,      \* Parse: path
    obj,       \* Parse: obj
    current,   \* Parse: current, a reference into obj
    rootNode,  \* Parse: rootNode
    reviver,   \* Parse's reviver argument
    calls,     \* the calls made to the reviver, in order
    result,    \* what Parse returned
    error      \* the exception that ended the run, or "none"

vars == <<pc, value, replacer, space, stack, xml, events, path, obj, current,
          rootNode, reviver, calls, result, error>>

(***************************************************************************)
(* Bounds of the model.                                                    *)
(***************************************************************************)
MaxLen == 3        \* longest array of leaves
MaxSpace == 12     \* largest numeric space argument
MaxCallDepth == 6  \* clone calls the engine's stack holds before it overflows

(***************************************************************************)
(* JavaScript values.  A "ref" entry is a reference to the container `up`  *)
(* levels above the entry (1 = the container that holds it): the only way  *)
(* a value reachable from a root can be cyclic.                            *)
(***************************************************************************)
Undefined == [t |-> "undefined"]
Null == [t |-> "null"]
NaN == [t |-> "number", nan |-> TRUE]
InvalidDate == [t |-> "date", invalid |-> TRUE]
Bool(b) == [t |-> "boolean", b |-> b]
Num(n) == [t |-> "number", n |-> n]
Str(s) == [t |-> "string", s |-> s]
Date(ms) == [t |-> "date", ms |-> ms]
Arr(items) == [t |-> "array", items |-> items]
Obj(props) == [t |-> "object", props |-> props]
Ref(k) == [t |-> "ref", up |-> k]
Prop(k, v) == [key |-> k, val |-> v]

\* A key as the transform hooks see it: a number for an array index, a
\* string for an object property.
KNum(n) == [n |-> n]
KStr(s) == [s |-> s]

\* typeof value
TypeOf(v) ==
    IF v.t \in {"null", "array", "date", "object", "ref"} THEN "object" ELSE v.t

\* Number.prototype.toString / String(index) on the integers of the model.
DecStr(n) ==
    CASE n = 0 -> "0" [] n = 1 -> "1" [] n = 2 -> "2" [] n = 3 -> "3"
      [] n = 4 -> "4" [] n = 5 -> "5" [] n = -1 -> "-1"
      [] OTHER -> "9"

DecRange == -1 .. 5

\* parseFloat(t)
ParseFloat(t) ==
    IF \E n \in DecRange : DecStr(n) = t
    THEN Num(CHOOSE n \in DecRange : DecStr(n) = t)
    ELSE NaN

\* Date.prototype.toISOString
ToISOString(ms) ==
    CASE ms = 0 -> "1970-01-01T00:00:00.000Z"
      [] ms = 1 -> "1970-01-01T00:00:00.001Z"
      [] OTHER -> "1970-01-01T00:00:00.002Z"

MsRange == 0 .. 2

\* new Date(t)
NewDate(t) ==
    IF \E ms \in MsRange : ToISOString(ms) = t
    THEN Date(CHOOSE ms \in MsRange : ToISOString(ms) = t)
    ELSE InvalidDate

\* value.toString() of a number, string or boolean (index.js:223)
ToString(v) ==
    CASE v.t = "number" -> DecStr(v.n)
      [] v.t = "boolean" -> (IF v.b THEN "true" ELSE "false")
      [] OTHER -> v.s

\* String.prototype.repeat(n), n >= 0
RECURSIVE Repeat(_, _)
Repeat(c, n) == IF n <= 0 THEN "" ELSE c \o Repeat(c, n - 1)

\* keys.indexOf(key): strict equality, so 0 and "0" differ
IndexOf(keys, key) ==
    IF \E i \in 1 .. Len(keys) : keys[i] = key
    THEN (CHOOSE i \in 1 .. Len(keys) :
             keys[i] = key /\ \A j \in 1 .. i - 1 : keys[j] # key) - 1
    ELSE -1

(***************************************************************************)
(* Stringify: the replacer, clone.                                         *)
(***************************************************************************)
NoReplacer == [kind |-> "none"]
KeyList(keys) == [kind |-> "list", keys |-> keys]
DropKey(k) == [kind |-> "function", drop |-> k]

\* The replacer after normalisation (index.js:151-163), applied to an entry.
\* A caller's function is the demo's: it drops one key.
ReplacerOffByOne(repl, key, val) ==
    CASE repl.kind = "list" ->
            (IF IndexOf(repl.keys, key) <= 0 THEN Undefined ELSE val)
      [] repl.kind = "function" ->
            (IF key = repl.drop THEN Undefined ELSE val)
      [] OTHER -> val

Replacer(repl, key, val) ==
    CASE repl.kind = "list" ->
            (IF IndexOf(repl.keys, key) < 0 THEN Undefined ELSE val)
      [] repl.kind = "function" ->
            (IF key = repl.drop THEN Undefined ELSE val)
      [] OTHER -> val

\* The entries the loops of clone, revive and stringifyValue visit, in order.
Entries(source) ==
    CASE source.t = "array" ->
            [i \in 1 .. Len(source.items) |-> Prop(KNum(i - 1), source.items[i])]
      [] source.t = "object" ->
            [i \in 1 .. Len(source.props) |->
                Prop(KStr(source.props[i].key), source.props[i].val)]
      [] OTHER -> <<>>

RECURSIVE clone(_, _)
RECURSIVE cloneArray(_, _, _)
RECURSIVE cloneObject(_, _, _)

cloneArray(repl, ents, n) ==
    IF n > Len(ents) THEN <<>>
    ELSE LET element == Replacer(repl, ents[n].key, ents[n].val)
         IN  IF element # Undefined
             THEN <<clone(repl, element)>> \o cloneArray(repl, ents, n + 1)
             ELSE cloneArray(repl, ents, n + 1)

cloneObject(repl, ents, n) ==
    IF n > Len(ents) THEN <<>>
    ELSE LET element == Replacer(repl, ents[n].key, ents[n].val)
         IN  IF element # Undefined
             THEN <<Prop(ents[n].key.s, clone(repl, element))>>
                      \o cloneObject(repl, ents, n + 1)
             ELSE cloneObject(repl, ents, n + 1)

\* clone(source) of a value without references to its ancestors.
clone(repl, source) ==
    IF source.t = "date" THEN source
    ELSE IF source.t = "array"
         THEN Arr(cloneArray(repl, Entries(source), 1))
    ELSE IF TypeOf(source) = "object"
         THEN Obj(cloneObject(repl, Entries(source), 1))
    ELSE source

(***************************************************************************)
(* Stringify: the calls made on the XML writer (index.js:193-230).         *)
(***************************************************************************)
StartDocument == [op |-> "startDocument"]
EndDocument == [op |-> "endDocument"]
StartElement(name) == [op |-> "startElement", name |-> name]
WriteAttribute(key) == [op |-> "writeAttribute", name |-> "name", value |-> key]
Text(content) == [op |-> "text", content |-> content]
EndElement == [op |-> "endElement"]

getTagname(v) ==
    IF v.t = "date" THEN "date"
    ELSE IF v.t = "array" THEN "array"
    ELSE TypeOf(v)

RECURSIVE stringifyValue(_)
RECURSIVE stringifyEntries(_, _)

\* One pass of either loop of stringifyValue (index.js:205-211, 213-219).
stringifyEntries(ents, n) ==
    IF n > Len(ents) THEN <<>>
    ELSE IF TypeOf(ents[n].val) = "function" THEN stringifyEntries(ents, n + 1)
    ELSE <<StartElement(getTagname(ents[n].val)), WriteAttribute(ents[n].key)>>
             \o stringifyValue(ents[n].val)
             \o <<EndElement>>
             \o stringifyEntries(ents, n + 1)

stringifyValue(v) ==
    IF v.t = "date" THEN <<Text(ToISOString(v.ms))>>
    ELSE IF v.t = "array" THEN stringifyEntries(Entries(v), 1)
    ELSE IF TypeOf(v) = "object" THEN stringifyEntries(Entries(v), 1)
    ELSE IF TypeOf(v) = "function" THEN <<>>
    ELSE <<Text(ToString(v))>>

\* index.js:227-230: the document around the root element.
WriterCalls(v) ==
    <<StartDocument, StartElement(getTagname(v))>>
        \o stringifyValue(v)
        \o <<EndElement, EndDocument>>

(***************************************************************************)
(* The two libraries between Stringify and Parse: xml-writer turns the     *)
(* calls into text, sax turns the text into events.  An element that got   *)
(* no text call and no child is written <tag/>; sax reports it as an open  *)
(* tag flagged self-closing followed by a close tag, and reports no text   *)
(* event for empty text.                                                   *)
(***************************************************************************)
OpenTag(name, attr, selfClosing) ==
    [e |-> "open", name |-> name, attr |-> attr, isSelfClosing |-> selfClosing]
TextEvent(t) == [e |-> "text", t |-> t]
CloseTag(name) == [e |-> "close", name |-> name]

\* xml-writer's isFalse(content) and strval(content) on an attribute value
IsFalse(key) == "s" \in DOMAIN key /\ key.s = ""
Strval(key) == IF "n" \in DOMAIN key THEN DecStr(key.n) ELSE key.s

\* xml-writer's indenter: a line break and one indent per open ancestor
Indenter(indent, depth) ==
    IF indent = "" THEN <<>> ELSE <<TextEvent("\n" \o Repeat(indent, depth))>>

RECURSIVE Render(_, _, _, _, _)
Render(cs, indent, stk, pend, out) ==
    IF cs = <<>> THEN out
    ELSE
      LET c == Head(cs)
          rest == Tail(cs)
          flushed == IF pend = Undefined THEN out
                     ELSE Append(out, OpenTag(pend.name, pend.attr, FALSE))
      IN  CASE c.op = "startElement" ->
                 Render(rest, indent,
                        Append([i \in 1 .. Len(stk) |->
                                   IF i = Len(stk)
                                   THEN [stk[i] EXCEPT !.containsTag = TRUE]
                                   ELSE stk[i]],
                               [name |-> c.name, containsTag |-> FALSE]),
                        [name |-> c.name, attr |-> Undefined],
                        flushed \o (IF stk = <<>> THEN <<>>
                                    ELSE Indenter(indent, Len(stk))))
            [] c.op = "writeAttribute" ->
                 Render(rest, indent, stk,
                        IF IsFalse(c.value) THEN pend
                        ELSE [pend EXCEPT !.attr = Str(Strval(c.value))],
                        out)
            [] c.op = "text" ->
                 Render(rest, indent, stk, Undefined,
                        flushed \o (IF c.content = "" THEN <<>>
                                    ELSE <<TextEvent(c.content)>>))
            [] c.op = "endElement" ->
                 LET t == stk[Len(stk)]
                 IN  Render(rest, indent, SubSeq(stk, 1, Len(stk) - 1), Undefined,
                            IF pend # Undefined
                            THEN out \o <<OpenTag(pend.name, pend.attr, TRUE),
                                          CloseTag(t.name)>>
                            ELSE out
                                   \o (IF t.containsTag
                                       THEN Indenter(indent, Len(stk) - 1)
                                       ELSE <<>>)
                                   \o <<CloseTag(t.name)>>)
            [] OTHER -> Render(rest, indent, stk, pend, out)

\* new XMLWriter(space) ... writer.toString(), read back by sax
Document(cs, indent) ==
    Render(cs, IF indent = Undefined THEN "" ELSE indent.s, <<>>, Undefined, <<>>)

\* index.js:147-149: a numeric space becomes that many spaces
SpaceString(sp) ==
    IF sp = Undefined THEN Undefined
    ELSE IF sp.t = "number" THEN Str(Repeat(" ", sp.n))
    ELSE sp

\* index.js:191-232 once clone has returned
StringifyResult(v, repl, sp) ==
    Document(WriterCalls(clone(repl, v)), SpaceString(sp))

(***************************************************************************)
(* Parse: the tree under construction.  obj is the synthetic root          *)
(* container; current and node.parentObject are references to containers   *)
(* inside obj, kept as the keys that lead to them from obj.                *)
(***************************************************************************)
Ptr(p) == [ref |-> p]

\* obj[x] converts x to a property key
PropertyKey(a) ==
    CASE a = Undefined -> "undefined"
      [] a = Null -> "null"
      [] OTHER -> a.s

\* the array index a property key denotes, or -1
ArrayIndex(key) ==
    IF \E n \in 0 .. 5 : DecStr(n) = key
    THEN CHOOSE n \in 0 .. 5 : DecStr(n) = key
    ELSE -1

\* container[key]
GetProp(c, key) ==
    CASE c.t = "array" ->
            (LET i == ArrayIndex(key)
             IN  IF i >= 0 /\ i < Len(c.items) THEN c.items[i + 1] ELSE Undefined)
      [] c.t = "object" ->
            (IF \E i \in 1 .. Len(c.props) : c.props[i].key = key
             THEN c.props[CHOOSE i \in 1 .. Len(c.props) : c.props[i].key = key].val
             ELSE Undefined)
      [] OTHER -> Undefined

\* container[key] = val; writing past the end of an array leaves holes,
\* which read as undefined
SetProp(c, key, val) ==
    CASE c.t = "array" ->
            (LET i == ArrayIndex(key)
                 len == IF i + 1 > Len(c.items) THEN i + 1 ELSE Len(c.items)
             IN  IF i < 0 THEN c
                 ELSE Arr([j \in 1 .. len |->
                             IF j = i + 1 THEN val
                             ELSE IF j <= Len(c.items) THEN c.items[j]
                             ELSE Undefined]))
      [] c.t = "object" ->
            (IF \E i \in 1 .. Len(c.props) : c.props[i].key = key
             THEN Obj([i \in 1 .. Len(c.props) |->
                         IF c.props[i].key = key THEN Prop(key, val)
                         ELSE c.props[i]])
             ELSE Obj(Append(c.props, Prop(key, val))))
      [] OTHER -> c

RECURSIVE GetAt(_, _)
GetAt(root, p) ==
    IF p = <<>> THEN root ELSE GetAt(GetProp(root, Head(p)), Tail(p))

\* ref[key] = val, for the container ref points at
RECURSIVE SetAt(_, _, _, _)
SetAt(root, p, key, val) ==
    IF p = <<>> THEN SetProp(root, key, val)
    ELSE SetProp(root, Head(p), SetAt(GetProp(root, Head(p)), Tail(p), key, val))

(***************************************************************************)
(* Parse: the reviver pass (index.js:89-118).                              *)
(***************************************************************************)
NoReviver == [kind |-> "none"]
IdentityReviver == [kind |-> "identity"]
DropIndex(n) == [kind |-> "dropKey", key |-> KNum(n)]
DropNumbers == [kind |-> "dropNumbers"]

\* reviver(key, value) for the caller's functions of the model:
\* (k, v) => v, (k, v) => k === n ? undefined : v, and the demo's
\* (k, v) => typeof v === 'number' ? undefined : v
Reviver(r, key, val) ==
    CASE r.kind = "dropKey" -> (IF key = r.key THEN Undefined ELSE val)
      [] r.kind = "dropNumbers" ->
            (IF TypeOf(val) = "number" THEN Undefined ELSE val)
      [] OTHER -> val

RECURSIVE revive(_, _)
RECURSIVE reviveArray(_, _, _)
RECURSIVE reviveObject(_, _, _)

reviveArray(r, ents, n) ==
    IF n > Len(ents) THEN <<>>
    ELSE LET element == Reviver(r, ents[n].key, ents[n].val)
         IN  IF element # Undefined
             THEN <<revive(r, element)>> \o reviveArray(r, ents, n + 1)
             ELSE reviveArray(r, ents, n + 1)

reviveObject(r, ents, n) ==
    IF n > Len(ents) THEN <<>>
    ELSE LET element == Reviver(r, ents[n].key, ents[n].val)
         IN  IF element # Undefined
             THEN <<Prop(ents[n].key.s, revive(r, element))>>
                      \o reviveObject(r, ents, n + 1)
             ELSE reviveObject(r, ents, n + 1)

revive(r, v) ==
    IF v.t = "date" THEN v
    ELSE IF v.t = "array" THEN Arr(reviveArray(r, Entries(v), 1))
    ELSE IF TypeOf(v) = "object" THEN Obj(reviveObject(r, Entries(v), 1))
    ELSE v

\* the (key, value) pairs revive passes to the reviver, in call order
RECURSIVE reviverCalls(_, _)
RECURSIVE reviverCallsFrom(_, _, _)

reviverCallsFrom(r, ents, n) ==
    IF n > Len(ents) THEN <<>>
    ELSE LET element == Reviver(r, ents[n].key, ents[n].val)
         IN  <<Prop(ents[n].key, ents[n].val)>>
                 \o (IF element # Undefined THEN reviverCalls(r, element) ELSE <<>>)
                 \o reviverCallsFrom(r, ents, n + 1)

reviverCalls(r, v) ==
    IF v.t = "date" THEN <<>>
    ELSE IF TypeOf(v) = "object" THEN reviverCallsFrom(r, Entries(v), 1)
    ELSE <<>>

(***************************************************************************)
(* The arguments the model calls Stringify with.                           *)
(***************************************************************************)
Keys == {"a", "b"}
KeySeqs == {<<>>, <<"a">>, <<"b">>, <<"a", "b">>, <<"b", "a">>}

ArraysOver(S, lens) == {Arr(items) : items \in UNION {[1 .. n -> S] : n \in lens}}
ObjectsOver(S, ks) ==
    UNION {{Obj([i \in 1 .. Len(k) |-> Prop(k[i], vals[i])]) :
               vals \in [1 .. Len(k) -> S]} : k \in ks}

ArrayLeaves == {Null, Bool(TRUE), Num(1), Str("x"), Str("")}
ObjectLeaves == {Null, Bool(FALSE), Num(0), Str("true"), Date(1)}
RootScalars == {Null, Bool(TRUE), Bool(FALSE), Num(-1), Str("x"), Str(""), Date(0)}

LeafArrays == ArraysOver(ArrayLeaves, 0 .. MaxLen)
LeafObjects == ObjectsOver(ObjectLeaves, KeySeqs)

\* entries of the nested values; the last four make the value cyclic
Inner ==
    { Null, Num(1), Arr(<<>>), Obj(<<>>), Arr(<<Num(1)>>),
      Arr(<<Null, Str("x")>>), Obj(<<Prop("a", Str("x"))>>),
      Obj(<<Prop("a", Null), Prop("b", Num(1))>>),
      Obj(<<Prop("b", Arr(<<Num(1)>>))>>),
      Ref(1), Arr(<<Ref(2)>>), Obj(<<Prop("a", Ref(1))>>),
      Obj(<<Prop("a", Num(1)), Prop("b", Ref(2))>>) }

Nested == ArraysOver(Inner, 1 .. 2) \cup ObjectsOver(Inner, KeySeqs \ {<<>>})

Replacers ==
    { KeyList(<<KStr("a")>>), KeyList(<<KStr("b"), KNum(1)>>),
      KeyList(<<KNum(0), KStr("a"), KStr("b")>>), KeyList(<<>>),
      DropKey(KStr("b")) }

Spaces ==
    {Undefined} \cup {Num(n) : n \in -1 .. MaxSpace}
        \cup {Str(""), Str("--"), Str("----------"), Str("------------")}

Indented ==
    { Num(1), Obj(<<>>), Arr(<<Num(1)>>),
      Obj(<<Prop("a", Num(1)), Prop("b", Bool(FALSE)), Prop("c", Str("x"))>>),
      Obj(<<Prop("a", Arr(<<Str("x"), Null>>))>>) }

Inputs ==
    ((RootScalars \cup LeafArrays \cup LeafObjects \cup Nested)
        \X {NoReplacer} \X {Undefined})
    \cup ((LeafObjects \cup Nested) \X Replacers \X {Undefined})
    \cup (Indented \X {NoReplacer} \X Spaces)

Revivers == {NoReviver, IdentityReviver, DropIndex(1), DropNumbers}

(***************************************************************************)
(* The state machine.                                                      *)
(***************************************************************************)
Init ==
    /\ pc = "start"
    /\ \E in \in Inputs : value = in[1] /\ replacer = in[2] /\ space = in[3]
    /\ stack = <<>>
    /\ xml = <<>>
    /\ events = <<>>
    /\ path = <<>>
    /\ obj = Obj(<<>>)
    /\ current = Ptr(<<>>)
    /\ rootNode = Null
    /\ reviver = NoReviver
    /\ calls = <<>>
    /\ result = Undefined
    /\ error = "none"

Frame(id, source) == [id |-> id, source |-> source, n |-> 0]

\* Stringify up to its call clone(value) (index.js:146-163, 191);
\* ' '.repeat(space) throws a RangeError for a negative count
Stringify ==
    /\ pc = "start"
    /\ IF space.t = "number" /\ space.n < 0
       THEN /\ pc' = "error"
            /\ error' = "RangeError"
            /\ UNCHANGED stack
       ELSE /\ pc' = "clone"
            /\ stack' = <<Frame(<<>>, value)>>
            /\ UNCHANGED error
    /\ UNCHANGED <<value, replacer, space, xml, events, path, obj, current,
                   rootNode, reviver, calls, result>>

\* the entry the innermost clone call's loop is at, and what the replacer
\* makes of it
Top == stack[Len(stack)]
AtEntry == Top.n < Len(Entries(Top.source))
Entry == Entries(Top.source)[Top.n + 1]
Element == Replacer(replacer, Entry.key, Entry.val)

\* the frame of clone(element): a reference to an ancestor is that ancestor
Callee ==
    IF Element.t = "ref"
    THEN LET target == stack[Len(stack) - Element.up + 1]
         IN  Frame(target.id, target.source)
    ELSE Frame(Append(Top.id, Entry.key), Element)

Advanced == [stack EXCEPT ![Len(stack)].n = @ + 1]

\* index.js:174, 182: the replacer kept the entry, clone(element) is called
cloneCall ==
    /\ pc = "clone"
    /\ AtEntry
    /\ Element # Undefined
    /\ Len(stack) < MaxCallDepth
    /\ stack' = Append(Advanced, Callee)
    /\ UNCHANGED <<pc, value, replacer, space, xml, events, path, obj, current,
                   rootNode, reviver, calls, result, error>>

\* the same call with the engine's stack full: "Maximum call stack size
\* exceeded"
cloneOverflow ==
    /\ pc = "clone"
    /\ AtEntry
    /\ Element # Undefined
    /\ Len(stack) >= MaxCallDepth
    /\ pc' = "error"
    /\ error' = "RangeError"
    /\ UNCHANGED <<value, replacer, space, stack, xml, events, path, obj,
                   current, rootNode, reviver, calls, result>>

\* index.js:173, 181: the replacer returned undefined, the entry is left out
cloneSkip ==
    /\ pc = "clone"
    /\ AtEntry
    /\ Element = Undefined
    /\ stack' = Advanced
    /\ UNCHANGED <<pc, value, replacer, space, xml, events, path, obj, current,
                   rootNode, reviver, calls, result, error>>

\* index.js:188: a clone call returns; when it is the outermost, Stringify
\* writes the document and returns it (index.js:191-232), and Parse is
\* called on it (index.js:15-20, 86)
cloneReturn ==
    /\ pc = "clone"
    /\ ~AtEntry
    /\ stack' = SubSeq(stack, 1, Len(stack) - 1)
    /\ IF Len(stack) = 1
       THEN /\ xml' = StringifyResult(value, replacer, space)
            /\ events' = xml'
            /\ pc' = "parse"
       ELSE UNCHANGED <<xml, events, pc>>
    /\ UNCHANGED <<value, replacer, space, path, obj, current, rootNode,
                   reviver, calls, result, error>>

Basic == {"date", "number", "string", "boolean"}

DataType(ev) ==
    IF ev.isSelfClosing THEN "null"
    ELSE IF ev.name \in Basic THEN "basic"
    ELSE IF ev.name = "array" THEN "array"
    ELSE "object"

\* the container an open tag puts under its name (index.js:40, 46, 52)
Stored(dataType) ==
    CASE dataType = "array" -> Arr(<<>>)
      [] dataType = "object" -> Obj(<<>>)
      [] OTHER -> Null

\* parser.onopentag (index.js:26-54); current[...] = ... throws a TypeError
\* when current is undefined
onopentag ==
    /\ pc = "parse"
    /\ events # <<>>
    /\ Head(events).e = "open"
    /\ LET node == Head(events)
           dataType == DataType(node)
           key == PropertyKey(node.attr)
       IN  /\ rootNode' = IF rootNode = Null THEN node.attr ELSE rootNode
           /\ path' = Append(path,
                 [name |-> node.name, attr |-> node.attr,
                  isSelfClosing |-> node.isSelfClosing, dataType |-> dataType,
                  parentObject |-> IF dataType \in {"array", "object"}
                                   THEN current ELSE Undefined])
           /\ IF dataType = "basic"
              THEN UNCHANGED <<obj, current, pc, error>>
              ELSE IF current = Undefined
              THEN /\ pc' = "error"
                   /\ error' = "TypeError"
                   /\ UNCHANGED <<obj, current>>
              ELSE /\ obj' = SetAt(obj, current.ref, key, Stored(dataType))
                   /\ current' = IF dataType = "null" THEN current
                                 ELSE Ptr(Append(current.ref, key))
                   /\ UNCHANGED <<pc, error>>
    /\ events' = Tail(events)
    /\ UNCHANGED <<value, replacer, space, stack, xml, reviver, calls, result>>

\* the value parser.ontext makes of the text (index.js:58-72)
TextValue(name, t) ==
    CASE name = "date" -> NewDate(t)
      [] name = "number" -> ParseFloat(t)
      [] name = "string" -> Str(t)
      [] name = "boolean" -> Bool(t = "true")
      [] OTHER -> Undefined

\* parser.ontext (index.js:56-77)
ontext ==
    /\ pc = "parse"
    /\ events # <<>>
    /\ Head(events).e = "text"
    /\ LET t == Head(events).t
           top == path[Len(path)]
           val == IF Len(path) > 0 THEN TextValue(top.name, t) ELSE Undefined
       IN  IF val = Undefined
           THEN UNCHANGED <<obj, pc, error>>
           ELSE IF current = Undefined
           THEN /\ pc' = "error"
                /\ error' = "TypeError"
                /\ UNCHANGED obj
           ELSE /\ obj' = SetAt(obj, current.ref, PropertyKey(top.attr), val)
                /\ UNCHANGED <<pc, error>>
    /\ events' = Tail(events)
    /\ UNCHANGED <<value, replacer, space, stack, xml, path, current, rootNode,
                   reviver, calls, result>>

\* parser.onclosetag (index.js:79-84)
onclosetag ==
    /\ pc = "parse"
    /\ events # <<>>
    /\ Head(events).e = "close"
    /\ LET node == path[Len(path)]
       IN  /\ path' = SubSeq(path, 1, Len(path) - 1)
           /\ current' = IF node.dataType # "basic" THEN node.parentObject
                         ELSE current
    /\ events' = Tail(events)
    /\ UNCHANGED <<pc, value, replacer, space, stack, xml, obj, rootNode,
                   reviver, calls, result, error>>

\* Parse after parser.write(xml).close() (index.js:89-120), for the reviver
\* it was called with
ParseReturn ==
    /\ pc = "parse"
    /\ events = <<>>
    /\ \E r \in Revivers :
          LET key == PropertyKey(rootNode)
              parsed == GetProp(obj, key)
          IN  /\ reviver' = r
              /\ IF r # NoReviver
                 THEN /\ obj' = SetProp(obj, key, revive(r, parsed))
                      /\ calls' = reviverCalls(r, parsed)
                 ELSE UNCHANGED <<obj, calls>>
              /\ result' = GetProp(obj', key)
    /\ pc' = "done"
    /\ UNCHANGED <<value, replacer, space, stack, xml, events, path, current,
                   rootNode, error>>

Next ==
    \/ Stringify
    \/ cloneCall
    \/ cloneOverflow
    \/ cloneSkip
    \/ cloneReturn
    \/ onopentag
    \/ ontext
    \/ onclosetag
    \/ ParseReturn

Spec == Init /\ [][Next]_vars

(***************************************************************************)
(* What the properties below are stated with.                              *)
(***************************************************************************)
IndentLimit == 10

RECURSIVE Acyclic(_)
Acyclic(v) ==
    /\ v.t # "ref"
    /\ \A i \in 1 .. Len(Entries(v)) : Acyclic(Entries(v)[i].val)

Returned == pc \in {"parse", "done"}

\* every element of a document: the name attributes from the root element
\* down to it, whether sax flags it self-closing, and whether it is empty
RECURSIVE Elements(_, _, _)
Elements(evs, i, names) ==
    IF i > Len(evs) THEN {}
    ELSE CASE evs[i].e = "open" ->
                 {[path |-> Append(names, evs[i].attr),
                   isSelfClosing |-> evs[i].isSelfClosing,
                   empty |-> evs[i + 1].e = "close"]}
                     \cup Elements(evs, i + 1, Append(names, evs[i].attr))
           [] evs[i].e = "close" ->
                 Elements(evs, i + 1, SubSeq(names, 1, Len(names) - 1))
           [] OTHER -> Elements(evs, i + 1, names)

\* where the Null entries of an acyclic value are: the keys from the root
RECURSIVE NullPaths(_, _)
NullPaths(v, at) ==
    IF v = Null THEN {at}
    ELSE UNION {NullPaths(Entries(v)[i].val,
                          Append(at, Str(Strval(Entries(v)[i].key)))) :
                   i \in 1 .. Len(Entries(v))}

\* the elements an allow-list lets through: an entry is written when its
\* key and the keys of all its ancestors are in the list; the entries kept
\* of an array are renumbered from 0
RECURSIVE Admitted(_, _, _)
Admitted(v, listed, at) ==
    LET ents == Entries(v)
        kept == {i \in 1 .. Len(ents) : ents[i].key \in listed}
        name(i) == IF v.t = "array"
                   THEN Str(DecStr(Cardinality({j \in kept : j < i})))
                   ELSE Str(ents[i].key.s)
    IN  UNION {{Append(at, name(i))}
                   \cup Admitted(ents[i].val, listed, Append(at, name(i))) :
                 i \in kept}

ListedKeys == {replacer.keys[i] : i \in 1 .. Len(replacer.keys)}

\* the keys of the containers the elements still open stand for
RECURSIVE OpenContainers(_)
OpenContainers(p) ==
    IF p = <<>> THEN <<>>
    ELSE IF p[Len(p)].dataType \in {"array", "object"}
         THEN Append(OpenContainers(SubSeq(p, 1, Len(p) - 1)),
                     PropertyKey(p[Len(p)].attr))
         ELSE OpenContainers(SubSeq(p, 1, Len(p) - 1))

IsScalar(v) == v.t \in {"boolean", "number", "string", "date"}

Clamped(sp) ==
    IF sp = Undefined THEN sp
    ELSE IF sp.t = "number"
         THEN Num(IF sp.n > IndentLimit THEN IndentLimit
                  ELSE IF sp.n < 0 THEN 0 ELSE sp.n)
    ELSE Str(SubSeq(sp.s, 1, IF Len(sp.s) > IndentLimit THEN IndentLimit
                             ELSE Len(sp.s)))

(***************************************************************************)
(* The properties.                                                         *)
(***************************************************************************)

\* C1: round trip.  For every acyclic value, stringified with no replacer
\* and no indentation, Parse completes and, without a reviver, returns a
\* tree equal to the value.
C1_RoundTrip ==
    (Acyclic(value) /\ replacer = NoReplacer /\ space = Undefined)
        => /\ pc # "error"
           /\ (pc = "done" /\ reviver = NoReviver) => result = value

\* C2: Null handling.  The element Stringify writes for a Null, at the root
\* or as an entry, is self-closing and empty; and every open-tag event
\* flagged self-closing makes Parse store null under the element's name in
\* the current container.
C2_NullHandling ==
    [][ /\ (pc = "clone" /\ pc' = "parse" /\ replacer = NoReplacer)
            => \A p \in NullPaths(value, <<Undefined>>) :
                  \E el \in Elements(xml', 1, <<>>) :
                      el.path = p /\ el.isSelfClosing /\ el.empty
        /\ (pc = "parse" /\ events # <<>> /\ Head(events).e = "open"
              /\ Head(events).isSelfClosing)
            => /\ pc' = "parse"
               /\ current # Undefined
               /\ GetProp(GetAt(obj', current.ref),
                          PropertyKey(Head(events).attr)) = Null ]_vars

\* C3: array index stability.  An array [a, b, c] of scalars comes back
\* from parse(stringify(...)) as [a, b, c] without a reviver and as [a, c]
\* with a reviver that returns undefined exactly for index 1.
C3_ArrayIndexStability ==
    (value.t = "array" /\ Len(Entries(value)) = 3
       /\ (\A i \in 1 .. 3 : IsScalar(value.items[i]))
       /\ replacer = NoReplacer /\ space = Undefined)
        => /\ pc # "error"
           /\ (pc = "done" /\ reviver = NoReviver) => result = value
           /\ (pc = "done" /\ reviver = DropIndex(1))
                 => result = Arr(<<value.items[1], value.items[3]>>)

\* C4: replacer allow-list.  With an array of keys as replacer, the
\* document holds an element for an entry exactly when the entry's key is
\* in the list and so are the keys of all its ancestors.
C4_AllowList ==
    (Returned /\ replacer.kind = "list")
        => {el.path : el \in Elements(xml, 1, <<>>)}
              = {<<Undefined>>} \cup Admitted(value, ListedKeys, <<Undefined>>)

C4_Witness ==
    /\ Returned
    /\ value = Obj(<<Prop("a", Obj(<<Prop("a", Null), Prop("b", Num(1))>>)),
                     Prop("b", Num(1))>>)
    /\ replacer = KeyList(<<KStr("a")>>)
    /\ {el.path : el \in Elements(xml, 1, <<>>)}
          = {<<Undefined>>, <<Undefined, Str("a")>>,
             <<Undefined, Str("a"), Str("a")>>}

\* C5: indentation clamp.  Stringify with a numeric space completes and
\* returns what it returns for that number clamped to 0..IndentLimit; with
\* a string space, what it returns for the string's first IndentLimit
\* characters.
C5_IndentClamp ==
    Acyclic(value)
        => /\ ~(pc = "error" /\ xml = <<>>)
           /\ Returned => xml = StringifyResult(value, replacer, Clamped(space))

\* C6: reviver at the top level.  With a reviver, Parse calls it for the
\* top-level value as the entry (rootKey, value), and returns what the
\* reviver returned for that entry, revived.
C6_ReviverTopLevel ==
    [][ (pc = "parse" /\ pc' = "done" /\ reviver' # NoReviver)
          => LET top == GetProp(obj, PropertyKey(rootNode))
                 element == Reviver(reviver', rootNode, top)
             IN  /\ \E i \in 1 .. Len(calls') :
                       calls'[i] = Prop(rootNode, top)
                 /\ result' = IF element = Undefined THEN Undefined
                              ELSE revive(reviver', element) ]_vars

\* C7: name attributes.  Every element of the document Stringify returns,
\* the root element included, has a name attribute; and Parse returns the
\* value stored under the key the root element's name attribute gives.
C7_NameAttributes ==
    /\ Returned
         => \A i \in 1 .. Len(xml) :
               xml[i].e = "open" => xml[i].attr # Undefined
    /\ (pc = "done" /\ reviver = NoReviver)
         => result = GetProp(obj, PropertyKey(xml[1].attr))

\* C8: cycles.  clone is never called on a value that is already being
\* cloned further up the chain of calls: Stringify stops there instead of
\* recursing.
C8_CycleDetected ==
    \A i, j \in 1 .. Len(stack) : i < j => stack[i].id # stack[j].id

\* C9: decoder frame.  After every close-tag event, current is the
\* container of the innermost element still open, obj when none is.
C9_DecoderFrame ==
    [][ (pc = "parse" /\ events # <<>> /\ Head(events).e = "close")
          => current' = Ptr(OpenContainers(path')) ]_vars

\* C10: the identity reviver is neutral.  Parse with (k, v) => v returns
\* the tree it returns with no reviver.
C10_IdentityReviver ==
    [][ (pc = "parse" /\ pc' = "done" /\ reviver' = IdentityReviver)
          => result' = GetProp(obj, PropertyKey(rootNode)) ]_vars

====
